---- MODULE Spec2Model ----
(***************************************************************************)
(* Model of the dictation application: the TextDiffer edit calculator,     *)
(* the reconciliation step (transcribe_buffer) and the recording session   *)
(* life cycle of ChunkedDictation, DictationDaemon and DictationApp.       *)
(*                                                                         *)
(* Strings are sequences of one-character strings, so "ab" is <<"a","b">>. *)
(***************************************************************************)
EXTENDS Integers, Sequences, FiniteSets, TLC

(* ------------------------------ bounds --------------------------------- *)

\* longest string handed to a TextDiffer in the differ specification
MaxLen == 3

\* largest max_backspaces a TextDiffer is constructed with in the differ specification
MaxCap == 2

\* number of toggle calls (hotkey threads, marker files or signals) in a run
NCallers == 3

\* number of audio frames the capture device delivers in a run
MaxFrames == 1

\* number of non-empty hypotheses the speech engine returns in a run
MaxHyps == 3

Alphabet == {"a", "b"}

RECURSIVE StrsOfLen(_)
StrsOfLen(n) ==
    IF n = 0 THEN {<<>>}
    ELSE {Append(s, c) : s \in StrsOfLen(n - 1), c \in Alphabet}

Strs == UNION {StrsOfLen(n) : n \in 0..MaxLen}

Min(a, b) == IF a < b THEN a ELSE b

(* ----------------------------- TextDiffer ------------------------------ *)

\* the (None, None) return of calculate_diff
SkipDiff == [none |-> TRUE, backspaces |-> 0, new_chars |-> <<>>]

EditDiff(n, s) == [none |-> FALSE, backspaces |-> n, new_chars |-> s]

\* a loop that stops one character early: range(min(len, len) - 1)
RECURSIVE ScanCommonShort(_, _, _, _)
ScanCommonShort(last, new, i, common_len) ==
    IF i > Min(Len(last), Len(new)) - 1 THEN common_len
    ELSE IF last[i] = new[i] THEN ScanCommonShort(last, new, i + 1, common_len + 1)
    ELSE common_len

\* the for-loop of calculate_diff: i runs over range(min(len, len)) and the
\* loop breaks at the first mismatch (i is 0-based in the code, 1-based here)
RECURSIVE ScanCommon(_, _, _, _)
ScanCommon(last, new, i, common_len) ==
    IF i > Min(Len(last), Len(new)) THEN common_len
    ELSE IF last[i] = new[i] THEN ScanCommon(last, new, i + 1, common_len + 1)
    ELSE common_len

\* new_text[common_len:]
Slice(s, from0) == SubSeq(s, from0 + 1, Len(s))

SkipTestGe(backspaces, cap) == backspaces >= cap

\* "if backspaces > self.max_backspaces"
SkipTest(backspaces, cap) == backspaces > cap

BackspacesWholeText(last, common_len) == Len(last)

\* "backspaces = len(self.last_typed) - common_len"
BackspacesNeeded(last, common_len) == Len(last) - common_len

calculate_diff(last, cap, new_text) ==
    LET common_len == ScanCommon(last, new_text, 1, 0)
        backspaces == BackspacesNeeded(last, common_len)
        new_chars  == Slice(new_text, common_len)
    IN  IF SkipTest(backspaces, cap) THEN SkipDiff
        ELSE EditDiff(backspaces, new_chars)

(* ------------------------------- state --------------------------------- *)

VARIABLES
    last_typed,      \* differ.last_typed
    max_backspaces,  \* differ.max_backspaces
    variant,         \* the class of the session: "chunked", "daemon" or "app"
    recording,       \* self.recording
    lock,            \* self.lock: 0 when free, else the caller holding it
    stream,          \* self.stream: 0 for None, else the stream (named after its opener)
    open_streams,    \* capture streams that are open
    audio_buffer,    \* self.audio_buffer
    record_thread,   \* DictationApp.record_thread: 0 for None, else the worker
    pc,              \* position of every thread of control
    tb,              \* locals of the threads that are inside transcribe_buffer
    rl,              \* locals of the DictationApp._record_loop workers
    joining,         \* DictationApp.stop_recording: the thread a caller is joining, or 0
    stack,           \* daemon: toggle activations on the main thread, innermost first
    screen,          \* text the sink has put on screen for the session
    eaten,           \* characters the sink deleted beyond the session's own text
    sink_failed,     \* a sink call has failed
    frames,          \* audio frames delivered so far
    hyps,            \* non-empty hypotheses returned so far
    skips,           \* "Large correction skipped" outcomes so far
    starts,          \* times self.recording went from False to True
    setup,           \* counts of start_recording: state resets, streams opened, workers spawned, starts taken back
    op,              \* differ specification: the TextDiffer method called last
    arg,             \* ... its argument
    result,          \* ... the value calculate_diff returned
    before,          \* ... last_typed when that call was made
    updated          \* ... <<B>> when the call before the last one was update(B), else <<>>

dvars == <<op, arg, result, before, updated>>

svars == <<variant, recording, lock, stream, open_streams, audio_buffer, record_thread,
           pc, tb, rl, joining, stack, screen, eaten, sink_failed, frames, hyps, skips, starts,
           setup>>

vars == <<last_typed, max_backspaces, dvars, svars>>

NoSetup == [resets |-> 0, opens |-> 0, spawns |-> 0, reverts |-> 0]

(* ------------------- specification of the TextDiffer ------------------- *)

\* the session is not used by the differ specification
NoSession ==
    /\ variant = "differ"
    /\ recording = FALSE
    /\ lock = 0
    /\ stream = 0
    /\ open_streams = {}
    /\ audio_buffer = <<>>
    /\ record_thread = 0
    /\ pc = <<>>
    /\ tb = <<>>
    /\ rl = <<>>
    /\ joining = <<>>
    /\ stack = <<>>
    /\ screen = <<>>
    /\ eaten = 0
    /\ sink_failed = FALSE
    /\ frames = 0
    /\ hyps = 0
    /\ skips = 0
    /\ starts = 0
    /\ setup = NoSetup

\* no TextDiffer method has been called
NoCall ==
    /\ op = "init"
    /\ arg = <<>>
    /\ result = SkipDiff
    /\ before = <<>>
    /\ updated = <<>>

\* TextDiffer(max_backspaces) for any cap, then any calls in any order
InitDiffer ==
    /\ last_typed = <<>>
    /\ max_backspaces \in 0..MaxCap
    /\ NoCall
    /\ NoSession

Remember == updated' = IF op = "update" THEN <<arg>> ELSE <<>>

DifferCalculateCommits(new_text) ==
    /\ op' = "calculate_diff"
    /\ arg' = new_text
    /\ before' = last_typed
    /\ result' = calculate_diff(last_typed, max_backspaces, new_text)
    /\ last_typed' = IF result'.none THEN last_typed ELSE new_text
    /\ Remember
    /\ UNCHANGED <<max_backspaces, svars>>

DifferCalculate(new_text) ==
    /\ op' = "calculate_diff"
    /\ arg' = new_text
    /\ before' = last_typed
    /\ result' = calculate_diff(last_typed, max_backspaces, new_text)
    /\ Remember
    /\ UNCHANGED <<last_typed, max_backspaces, svars>>

DifferUpdate(text) ==
    /\ op' = "update"
    /\ arg' = text
    /\ before' = last_typed
    /\ last_typed' = text
    /\ Remember
    /\ UNCHANGED <<max_backspaces, result, svars>>

DifferReset ==
    /\ op' = "reset"
    /\ arg' = <<>>
    /\ before' = last_typed
    /\ last_typed' = <<>>
    /\ Remember
    /\ UNCHANGED <<max_backspaces, result, svars>>

NextDiffer ==
    \/ \E s \in Strs : DifferCalculate(s)
    \/ \E s \in Strs : DifferUpdate(s)
    \/ DifferReset

SpecDiffer == InitDiffer /\ [][NextDiffer]_vars

(* ------------------------- the recording session ----------------------- *)

\* TextDiffer(max_backspaces=20)
DifferCap == 20

\* CHUNK_DURATION_MS
ChunkDurationMs == 30

\* chunks_per_second = 1000 // CHUNK_DURATION_MS
ChunksPerSecond == 1000 \div ChunkDurationMs

\* silence_chunks_threshold = int(SILENCE_THRESHOLD * chunks_per_second), SILENCE_THRESHOLD = 1.5
SilenceChunksThreshold == (15 * ChunksPerSecond) \div 10

Callers == 1..NCallers

\* the background thread spawned by caller c's start_recording
Worker(c) == NCallers + c

Workers == {Worker(c) : c \in Callers}

Threads == Callers \cup Workers

IsCaller(t) == t \in Callers

LongHyp == [i \in 1..(DifferCap + 1) |-> "a"]

\* texts the speech engine may return (joined and stripped); <<>> is "no speech"
Hypotheses == {<<"a">>, <<"a", "b">>, <<"b">>, LongHyp}

\* the texts of the runs that explore the threads of a session
SessionTexts == {<<"a">>, <<"a", "b">>}

Frame(n, is_loud) == [n |-> n, loud |-> is_loud]

\* no transcribe_buffer call in progress
TbIdle == [text |-> <<>>, diff |-> SkipDiff, bs |-> "none", ty |-> "none"]

\* the locals of _record_loop at its start
RlIdle == [buffered |-> 0, silence_chunks |-> 0, speech_detected |-> FALSE]

InTranscribe == {"tb_engine", "tb_backspaces", "tb_type", "tb_update"}

\* where transcribe_buffer returns to: the end of stop_recording, or the worker's loop
AfterTranscribe(t) == IF IsCaller(t) THEN "done" ELSE "w_loop"

\* the state after __init__, for each of the three classes
Init ==
    /\ last_typed = <<>>
    /\ max_backspaces = DifferCap
    /\ variant \in {"chunked", "daemon", "app"}
    /\ recording = FALSE
    /\ lock = 0
    /\ stream = 0
    /\ open_streams = {}
    /\ audio_buffer = <<>>
    /\ record_thread = 0
    /\ pc = [t \in Threads |-> IF IsCaller(t) THEN "idle" ELSE "unborn"]
    /\ tb = [t \in Threads |-> TbIdle]
    /\ rl = [t \in Workers |-> RlIdle]
    /\ joining = [c \in Callers |-> 0]
    /\ stack = <<>>
    /\ screen = <<>>
    /\ eaten = 0
    /\ sink_failed = FALSE
    /\ frames = 0
    /\ hyps = 0
    /\ skips = 0
    /\ starts = 0
    /\ setup = NoSetup
    /\ NoCall

\* In the daemon every toggle runs on the main thread: from the main loop, or
\* from the SIGUSR1 handler, which Python runs between two bytecodes of
\* whatever the main thread is executing.  Only the innermost activation moves.
Runs(c) == variant = "daemon" => (stack # <<>> /\ Head(stack) = c)

Go(t, to) == pc' = [pc EXCEPT ![t] = to]

Popped == IF variant = "daemon" THEN Tail(stack) ELSE stack

\* caller c's toggle ends: its thread ends, or its frame is popped
Return(c) == Go(c, "done") /\ stack' = Popped

ToggleTargetInverted(is_recording) == IF is_recording THEN "start_check" ELSE "stop_check"

\* "if self.recording: self.stop_recording() else: self.start_recording()"
ToggleTarget(is_recording) == IF is_recording THEN "stop_check" ELSE "start_check"

\* toggle / toggle_recording: the read of self.recording, made without the lock
Toggle(c) ==
    /\ pc[c] = "idle"
    /\ Go(c, ToggleTarget(recording))
    /\ stack' = IF variant = "daemon" THEN <<c>> \o stack ELSE stack
    /\ UNCHANGED <<last_typed, max_backspaces, dvars, variant, recording, lock, stream,
                   open_streams, audio_buffer, record_thread, tb, rl, joining, screen,
                   eaten, sink_failed, frames, hyps, skips, starts, setup>>

\* ChunkedDictation.start_recording: "with self.lock: if self.recording: return;
\* self.recording = True"; the lock is kept for the two resets that follow
StartCheckChunked(c) ==
    /\ variant = "chunked"
    /\ pc[c] = "start_check"
    /\ lock = 0
    /\ IF recording
       THEN /\ Return(c)
            /\ UNCHANGED <<recording, lock, starts>>
       ELSE /\ recording' = TRUE
            /\ starts' = starts + 1
            /\ lock' = c
            /\ Go(c, "start_buf")
            /\ UNCHANGED stack
    /\ UNCHANGED <<last_typed, max_backspaces, dvars, variant, stream, open_streams,
                   audio_buffer, record_thread, tb, rl, joining, screen, eaten,
                   sink_failed, frames, hyps, skips, setup>>

\* DictationApp.start_recording: "with self.lock: if self.recording: return;
\* self.recording = True; self.shutdown_flag = False"
StartCheckApp(c) ==
    /\ variant = "app"
    /\ pc[c] = "start_check"
    /\ lock = 0
    /\ IF recording
       THEN /\ Return(c)
            /\ UNCHANGED <<recording, starts>>
       ELSE /\ recording' = TRUE
            /\ starts' = starts + 1
            /\ Go(c, "start_open")
            /\ UNCHANGED stack
    /\ UNCHANGED <<last_typed, max_backspaces, dvars, variant, lock, stream,
                   open_streams, audio_buffer, record_thread, tb, rl, joining, screen,
                   eaten, sink_failed, frames, hyps, skips, setup>>

\* DictationDaemon.start_recording: "if self.recording: return", no lock
StartCheckDaemon(c) ==
    /\ variant = "daemon"
    /\ pc[c] = "start_check"
    /\ Runs(c)
    /\ IF recording
       THEN Return(c)
       ELSE Go(c, "start_set") /\ UNCHANGED stack
    /\ UNCHANGED <<last_typed, max_backspaces, dvars, variant, recording, lock, stream,
                   open_streams, audio_buffer, record_thread, tb, rl, joining, screen,
                   eaten, sink_failed, frames, hyps, skips, starts, setup>>

\* DictationDaemon.start_recording: "self.recording = True"
StartSet(c) ==
    /\ pc[c] = "start_set"
    /\ Runs(c)
    /\ recording' = TRUE
    /\ starts' = IF recording THEN starts ELSE starts + 1
    /\ Go(c, "start_buf")
    /\ UNCHANGED <<last_typed, max_backspaces, dvars, variant, lock, stream,
                   open_streams, audio_buffer, record_thread, tb, rl, joining, stack,
                   screen, eaten, sink_failed, frames, hyps, skips, setup>>

\* "self.audio_buffer = []"
StartBuf(c) ==
    /\ pc[c] = "start_buf"
    /\ Runs(c)
    /\ audio_buffer' = <<>>
    /\ Go(c, "start_reset")
    /\ UNCHANGED <<last_typed, max_backspaces, dvars, variant, recording, lock, stream,
                   open_streams, record_thread, tb, rl, joining, stack, screen, eaten,
                   sink_failed, frames, hyps, skips, starts, setup>>

\* "self.differ.reset()", and the end of the with-block; the text on screen
\* for the session starts empty with it
StartReset(c) ==
    /\ pc[c] = "start_reset"
    /\ Runs(c)
    /\ last_typed' = <<>>
    /\ screen' = <<>>
    /\ eaten' = 0
    /\ setup' = [setup EXCEPT !.resets = @ + 1]
    /\ lock' = IF lock = c THEN 0 ELSE lock
    /\ Go(c, "start_open")
    /\ UNCHANGED <<max_backspaces, dvars, variant, recording, stream, open_streams,
                   audio_buffer, record_thread, tb, rl, joining, stack, sink_failed,
                   frames, hyps, skips, starts>>

\* "self.stream = sd.InputStream(...); self.stream.start()", or in DictationApp
\* "self.audio = pyaudio.PyAudio(); self.stream = self.audio.open(...)"
StartOpen(c) ==
    /\ pc[c] = "start_open"
    /\ Runs(c)
    /\ stream' = c
    /\ open_streams' = open_streams \cup {c}
    /\ setup' = [setup EXCEPT !.opens = @ + 1]
    /\ Go(c, "start_spawn")
    /\ UNCHANGED <<last_typed, max_backspaces, dvars, variant, recording, lock,
                   audio_buffer, record_thread, tb, rl, joining, stack, screen, eaten,
                   sink_failed, frames, hyps, skips, starts>>

\* opening the capture device raises: in ChunkedDictation the exception ends
\* the hotkey thread with self.recording left True, in DictationApp it is
\* caught ("except Exception") and the start is taken back
StartOpenFails(c) ==
    /\ variant \in {"chunked", "app"}
    /\ pc[c] = "start_open"
    /\ Go(c, IF variant = "app" THEN "start_revert" ELSE "crashed")
    /\ UNCHANGED <<last_typed, max_backspaces, dvars, variant, recording, lock, stream,
                   open_streams, audio_buffer, record_thread, tb, rl, joining, stack,
                   screen, eaten, sink_failed, frames, hyps, skips, starts, setup>>

\* DictationApp.start_recording after a failed open: "with self.lock:
\* self.recording = False", then return
StartRevert(c) ==
    /\ pc[c] = "start_revert"
    /\ lock = 0
    /\ recording' = FALSE
    /\ setup' = [setup EXCEPT !.reverts = @ + 1]
    /\ Return(c)
    /\ UNCHANGED <<last_typed, max_backspaces, dvars, variant, lock, stream,
                   open_streams, audio_buffer, record_thread, tb, rl, joining, screen,
                   eaten, sink_failed, frames, hyps, skips, starts>>

\* "threading.Thread(target=..., daemon=True).start()"; DictationApp keeps
\* the thread in self.record_thread
StartSpawn(c) ==
    /\ pc[c] = "start_spawn"
    /\ Runs(c)
    /\ pc' = [pc EXCEPT ![c] = "done",
                        ![Worker(c)] = IF variant = "app" THEN "r_loop" ELSE "w_loop"]
    /\ stack' = Popped
    /\ record_thread' = IF variant = "app" THEN Worker(c) ELSE record_thread
    /\ setup' = [setup EXCEPT !.spawns = @ + 1]
    /\ UNCHANGED <<last_typed, max_backspaces, dvars, variant, recording, lock, stream,
                   open_streams, audio_buffer, tb, rl, joining, screen, eaten,
                   sink_failed, frames, hyps, skips, starts>>

\* stop_recording of ChunkedDictation and DictationApp: "with self.lock: if not
\* self.recording: return; self.recording = False"
StopCheckLocked(c) ==
    /\ variant \in {"chunked", "app"}
    /\ pc[c] = "stop_check"
    /\ lock = 0
    /\ IF ~recording
       THEN Return(c) /\ UNCHANGED recording
       ELSE /\ recording' = FALSE
            /\ Go(c, IF variant = "app" THEN "stop_join" ELSE "stop_close")
            /\ UNCHANGED stack
    /\ UNCHANGED <<last_typed, max_backspaces, dvars, variant, lock, stream,
                   open_streams, audio_buffer, record_thread, tb, rl, joining, screen,
                   eaten, sink_failed, frames, hyps, skips, starts, setup>>

\* DictationDaemon.stop_recording: "if not self.recording: return", then
\* time.sleep(0.3)
StopCheckDaemon(c) ==
    /\ variant = "daemon"
    /\ pc[c] = "stop_check"
    /\ Runs(c)
    /\ IF ~recording
       THEN Return(c)
       ELSE Go(c, "stop_sleep") /\ UNCHANGED stack
    /\ UNCHANGED <<last_typed, max_backspaces, dvars, variant, recording, lock, stream,
                   open_streams, audio_buffer, record_thread, tb, rl, joining, screen,
                   eaten, sink_failed, frames, hyps, skips, starts, setup>>

\* DictationDaemon.stop_recording after the sleep: "self.recording = False"
StopSleep(c) ==
    /\ pc[c] = "stop_sleep"
    /\ Runs(c)
    /\ recording' = FALSE
    /\ Go(c, "stop_close")
    /\ UNCHANGED <<last_typed, max_backspaces, dvars, variant, lock, stream,
                   open_streams, audio_buffer, record_thread, tb, rl, joining, stack,
                   screen, eaten, sink_failed, frames, hyps, skips, starts, setup>>

\* "if self.stream: self.stream.stop(); self.stream.close()"
StopClose(c) ==
    /\ pc[c] = "stop_close"
    /\ Runs(c)
    /\ IF stream # 0
       THEN open_streams' = open_streams \ {stream} /\ Go(c, "stop_none")
       ELSE UNCHANGED open_streams /\ Go(c, "stop_final")
    /\ UNCHANGED <<last_typed, max_backspaces, dvars, variant, recording, lock, stream,
                   audio_buffer, record_thread, tb, rl, joining, stack, screen, eaten,
                   sink_failed, frames, hyps, skips, starts, setup>>

\* "self.stream = None"
StopNone(c) ==
    /\ pc[c] = "stop_none"
    /\ Runs(c)
    /\ stream' = 0
    /\ Go(c, "stop_final")
    /\ UNCHANGED <<last_typed, max_backspaces, dvars, variant, recording, lock,
                   open_streams, audio_buffer, record_thread, tb, rl, joining, stack,
                   screen, eaten, sink_failed, frames, hyps, skips, starts, setup>>

\* "np.abs(audio).max() < 0.01" on the concatenated buffer
TooQuiet(buffer) == \A i \in 1..Len(buffer) : ~buffer[i].loud

ReachesEngineAtAnyLevel == audio_buffer # <<>>

\* the head of transcribe_buffer: "if not self.audio_buffer: return",
\* np.concatenate, "if np.abs(audio).max() < 0.01: return"; what is left is
\* the call of the speech engine
ReachesEngine == audio_buffer # <<>> /\ ~TooQuiet(audio_buffer)

\* "if self.audio_buffer: self.transcribe_buffer()" at the end of
\* stop_recording
StopFinal(c) ==
    /\ pc[c] = "stop_final"
    /\ Runs(c)
    /\ IF ReachesEngine
       THEN Go(c, "tb_engine") /\ UNCHANGED stack
       ELSE Return(c)
    /\ UNCHANGED <<last_typed, max_backspaces, dvars, variant, recording, lock, stream,
                   open_streams, audio_buffer, record_thread, tb, rl, joining, screen,
                   eaten, sink_failed, frames, hyps, skips, starts, setup>>

\* DictationApp.stop_recording: "if self.record_thread and
\* self.record_thread.is_alive():", which leads to the join of that thread
StopJoin(c) ==
    /\ pc[c] = "stop_join"
    /\ IF record_thread # 0 /\ pc[record_thread] # "done"
       THEN /\ joining' = [joining EXCEPT ![c] = record_thread]
            /\ Go(c, "stop_joining")
            /\ UNCHANGED stack
       ELSE /\ Return(c)
            /\ UNCHANGED joining
    /\ UNCHANGED <<last_typed, max_backspaces, dvars, variant, recording, lock, stream,
                   open_streams, audio_buffer, record_thread, tb, rl, screen, eaten,
                   sink_failed, frames, hyps, skips, starts, setup>>

\* "self.record_thread.join(timeout=5.0)" returns because the thread has ended
StopJoined(c) ==
    /\ pc[c] = "stop_joining"
    /\ pc[joining[c]] = "done"
    /\ joining' = [joining EXCEPT ![c] = 0]
    /\ Return(c)
    /\ UNCHANGED <<last_typed, max_backspaces, dvars, variant, recording, lock, stream,
                   open_streams, audio_buffer, record_thread, tb, rl, screen, eaten,
                   sink_failed, frames, hyps, skips, starts, setup>>

\* the join returns after five seconds with the thread still alive: "[WARN]
\* Record thread did not stop in time"
StopJoinTimeout(c) ==
    /\ pc[c] = "stop_joining"
    /\ pc[joining[c]] # "done"
    /\ joining' = [joining EXCEPT ![c] = 0]
    /\ Return(c)
    /\ UNCHANGED <<last_typed, max_backspaces, dvars, variant, recording, lock, stream,
                   open_streams, audio_buffer, record_thread, tb, rl, screen, eaten,
                   sink_failed, frames, hyps, skips, starts, setup>>

\* audio_callback: "if self.recording: self.audio_buffer.append(indata.copy())",
\* called by the capture thread of an open stream
AudioCallback(s, is_loud) ==
    /\ variant \in {"chunked", "daemon"}
    /\ s \in open_streams
    /\ frames < MaxFrames
    /\ recording
    /\ frames' = frames + 1
    /\ audio_buffer' = Append(audio_buffer, Frame(frames + 1, is_loud))
    /\ UNCHANGED <<last_typed, max_backspaces, dvars, variant, recording, lock, stream,
                   open_streams, record_thread, pc, tb, rl, joining, stack, screen,
                   eaten, sink_failed, hyps, skips, starts, setup>>

\* transcription_loop: "while self.recording:" followed by time.sleep
WorkerLoop(w) ==
    /\ pc[w] = "w_loop"
    /\ Go(w, IF recording THEN "w_wake" ELSE "done")
    /\ UNCHANGED <<last_typed, max_backspaces, dvars, variant, recording, lock, stream,
                   open_streams, audio_buffer, record_thread, tb, rl, joining, stack,
                   screen, eaten, sink_failed, frames, hyps, skips, starts, setup>>

WorkerWakeTakesBuffer(w) ==
    /\ pc[w] = "w_wake"
    /\ Go(w, IF recording /\ ReachesEngine THEN "tb_engine" ELSE "w_loop")
    /\ audio_buffer' = IF recording /\ ReachesEngine THEN <<>> ELSE audio_buffer
    /\ UNCHANGED <<last_typed, max_backspaces, dvars, variant, recording, lock, stream,
                   open_streams, record_thread, tb, rl, joining, stack, screen, eaten,
                   sink_failed, frames, hyps, skips, starts, setup>>

\* transcription_loop after the sleep: "if self.recording and self.audio_buffer:
\* self.transcribe_buffer()"
WorkerWake(w) ==
    /\ pc[w] = "w_wake"
    /\ Go(w, IF recording /\ ReachesEngine THEN "tb_engine" ELSE "w_loop")
    /\ UNCHANGED <<last_typed, max_backspaces, dvars, variant, recording, lock, stream,
                   open_streams, audio_buffer, record_thread, tb, rl, joining, stack,
                   screen, eaten, sink_failed, frames, hyps, skips, starts, setup>>

\* a thread inside transcribe_buffer may move: a worker always, a caller of
\* the daemon only as the innermost activation of the main thread
CanStep(t) == IsCaller(t) => Runs(t)

\* transcribe_buffer returns and its locals are gone
Leave(t) ==
    /\ Go(t, AfterTranscribe(t))
    /\ stack' = IF IsCaller(t) THEN Popped ELSE stack

AfterDiffNoneAsEmpty(d) ==
    IF d.backspaces > 0 THEN "tb_backspaces" ELSE "tb_type"

\* the statement transcribe_buffer goes to after calculate_diff returned d:
\* "if backspaces is None: return", "if backspaces > 0:", "if new_text:"
AfterDiff(d) ==
    IF d.none THEN "return"
    ELSE IF d.backspaces > 0 THEN "tb_backspaces"
    ELSE IF d.new_chars # <<>> THEN "tb_type"
    ELSE "return"

\* the statement after self.type_backspaces(backspaces), whose result is not
\* looked at: "if new_text:"
AfterBackspaces(d, ok) == IF d.new_chars # <<>> THEN "tb_type" ELSE "return"

\* the statement after self.type_text(new_text), whose result is not looked
\* at: "self.differ.update(text)"
AfterType(ok) == "tb_update"

\* model.transcribe returns, the text is joined and stripped, "if not text:
\* return", then "backspaces, new_text = self.differ.calculate_diff(text)"
TbEngine(t, text) ==
    /\ pc[t] = "tb_engine"
    /\ CanStep(t)
    /\ text # <<>> => hyps < MaxHyps
    /\ LET d == calculate_diff(last_typed, max_backspaces, text)
           to == IF text = <<>> THEN "return" ELSE AfterDiff(d)
       IN  /\ hyps' = IF text = <<>> THEN hyps ELSE hyps + 1
           /\ skips' = IF text # <<>> /\ d.none THEN skips + 1 ELSE skips
           /\ IF to = "return"
              THEN Leave(t) /\ UNCHANGED tb
              ELSE /\ Go(t, to)
                   /\ tb' = [tb EXCEPT ![t] = [TbIdle EXCEPT !.text = text, !.diff = d]]
                   /\ UNCHANGED stack
    /\ UNCHANGED <<last_typed, max_backspaces, dvars, variant, recording, lock, stream,
                   open_streams, audio_buffer, record_thread, rl, joining, screen,
                   eaten, sink_failed, frames, starts, setup>>

\* model.transcribe raises on the worker: neither transcribe_buffer nor
\* transcription_loop has a handler, so the thread ends with the exception
TbEngineRaises(w) ==
    /\ pc[w] = "tb_engine"
    /\ ~IsCaller(w)
    /\ Go(w, "crashed")
    /\ UNCHANGED <<last_typed, max_backspaces, dvars, variant, recording, lock, stream,
                   open_streams, audio_buffer, record_thread, tb, rl, joining, stack,
                   screen, eaten, sink_failed, frames, hyps, skips, starts, setup>>

\* the sink removes k characters before the cursor
ScreenAfterBackspaces(text, k) ==
    IF k <= Len(text) THEN SubSeq(text, 1, Len(text) - k) ELSE <<>>

EatenByBackspaces(text, k) == IF k <= Len(text) THEN 0 ELSE k - Len(text)

\* type_backspaces(count): count calls of ydotool; when call number done + 1
\* fails the loop ends with done backspaces issued and False is returned
TbBackspaces(t, done) ==
    /\ pc[t] = "tb_backspaces"
    /\ CanStep(t)
    /\ done \in 0..tb[t].diff.backspaces
    /\ LET ok == done = tb[t].diff.backspaces
           to == AfterBackspaces(tb[t].diff, ok)
       IN  /\ screen' = ScreenAfterBackspaces(screen, done)
           /\ eaten' = eaten + EatenByBackspaces(screen, done)
           /\ sink_failed' = (sink_failed \/ ~ok)
           /\ IF to = "return"
              THEN Leave(t) /\ tb' = [tb EXCEPT ![t] = TbIdle]
              ELSE /\ Go(t, to)
                   /\ tb' = [tb EXCEPT ![t].bs = IF ok THEN "ok" ELSE "failed"]
                   /\ UNCHANGED stack
    /\ UNCHANGED <<last_typed, max_backspaces, dvars, variant, recording, lock, stream,
                   open_streams, audio_buffer, record_thread, rl, joining, frames,
                   hyps, skips, starts, setup>>

\* type_text(new_text): one call of ydotool, which types the text or fails
TbType(t, ok) ==
    /\ pc[t] = "tb_type"
    /\ CanStep(t)
    /\ screen' = IF ok THEN screen \o tb[t].diff.new_chars ELSE screen
    /\ sink_failed' = (sink_failed \/ ~ok)
    /\ tb' = [tb EXCEPT ![t].ty = IF ok THEN "ok" ELSE "failed"]
    /\ Go(t, AfterType(ok))
    /\ UNCHANGED <<last_typed, max_backspaces, dvars, variant, recording, lock, stream,
                   open_streams, audio_buffer, record_thread, rl, joining, stack,
                   eaten, frames, hyps, skips, starts, setup>>

\* "self.differ.update(text)", the last statement that changes state
TbUpdate(t) ==
    /\ pc[t] = "tb_update"
    /\ CanStep(t)
    /\ last_typed' = tb[t].text
    /\ tb' = [tb EXCEPT ![t] = TbIdle]
    /\ Leave(t)
    /\ UNCHANGED <<max_backspaces, dvars, variant, recording, lock, stream,
                   open_streams, audio_buffer, record_thread, rl, joining, screen,
                   eaten, sink_failed, frames, hyps, skips, starts, setup>>

\* DictationApp._record_loop: "while self.recording:"
RecordLoop(w) ==
    /\ pc[w] = "r_loop"
    /\ Go(w, IF recording THEN "r_read" ELSE "r_finally")
    /\ UNCHANGED <<last_typed, max_backspaces, dvars, variant, recording, lock, stream,
                   open_streams, audio_buffer, record_thread, tb, rl, joining, stack,
                   screen, eaten, sink_failed, frames, hyps, skips, starts, setup>>

AfterChunkKeepsSilence(l, is_speech) ==
    IF is_speech
    THEN [l EXCEPT !.buffered = @ + 1, !.speech_detected = TRUE]
    ELSE IF l.speech_detected
    THEN [l EXCEPT !.buffered = @ + 1, !.silence_chunks = @ + 1]
    ELSE l

\* the locals after one chunk: speech is buffered and ends the silence;
\* non-speech after speech is buffered and counted; other chunks are dropped
AfterChunk(l, is_speech) ==
    IF is_speech
    THEN [buffered |-> l.buffered + 1, silence_chunks |-> 0, speech_detected |-> TRUE]
    ELSE IF l.speech_detected
    THEN [l EXCEPT !.buffered = @ + 1, !.silence_chunks = @ + 1]
    ELSE l

\* "chunk = self.stream.read(...)", "is_speech = self.vad.is_speech(...)" and
\* the bookkeeping of the chunk; enough silence after speech leads to the
\* transcription of the buffer
RecordRead(w, is_speech) ==
    /\ pc[w] = "r_read"
    /\ stream # 0
    /\ stream \in open_streams
    /\ frames < MaxFrames
    /\ frames' = frames + 1
    /\ LET l == AfterChunk(rl[w], is_speech)
       IN  /\ rl' = [rl EXCEPT ![w] = l]
           /\ Go(w, IF ~is_speech /\ l.speech_detected
                       /\ l.silence_chunks >= SilenceChunksThreshold
                    THEN "r_emit" ELSE "r_loop")
    /\ UNCHANGED <<last_typed, max_backspaces, dvars, variant, recording, lock, stream,
                   open_streams, audio_buffer, record_thread, tb, joining, stack,
                   screen, eaten, sink_failed, hyps, skips, starts, setup>>

\* the read raises (self.stream is None or closed, or the device fails):
\* "except Exception: break"
RecordReadFails(w) ==
    /\ pc[w] = "r_read"
    /\ Go(w, "r_finally")
    /\ UNCHANGED <<last_typed, max_backspaces, dvars, variant, recording, lock, stream,
                   open_streams, audio_buffer, record_thread, tb, rl, joining, stack,
                   screen, eaten, sink_failed, frames, hyps, skips, starts, setup>>

\* _shutdown_audio in the finally block: "if self.stream: stop_stream, close;
\* self.stream = None", "if self.audio: terminate; self.audio = None"
ShutdownAudio(w) ==
    /\ pc[w] = "r_finally"
    /\ open_streams' = IF stream # 0 THEN open_streams \ {stream} ELSE open_streams
    /\ stream' = 0
    /\ Go(w, "done")
    /\ UNCHANGED <<last_typed, max_backspaces, dvars, variant, recording, lock,
                   audio_buffer, record_thread, tb, rl, joining, stack, screen, eaten,
                   sink_failed, frames, hyps, skips, starts, setup>>

\* _record_loop with enough silence after speech: "if audio_buffer and
\* self.recording:" decides whether the buffer goes to transcribe_audio
RecordEmit(w) ==
    /\ pc[w] = "r_emit"
    /\ Go(w, IF rl[w].buffered > 0 /\ recording THEN "r_engine" ELSE "r_reset")
    /\ UNCHANGED <<last_typed, max_backspaces, dvars, variant, recording, lock, stream,
                   open_streams, audio_buffer, record_thread, tb, rl, joining, stack,
                   screen, eaten, sink_failed, frames, hyps, skips, starts, setup>>

\* "text = self.transcribe_audio(audio_data)", which returns "" when the
\* engine raises, then "if text: self.type_text(text + ' ')"
RecordEngine(w, text, ok) ==
    /\ pc[w] = "r_engine"
    /\ text # <<>> => hyps < MaxHyps
    /\ hyps' = IF text = <<>> THEN hyps ELSE hyps + 1
    /\ screen' = IF text # <<>> /\ ok THEN screen \o text \o <<" ">> ELSE screen
    /\ sink_failed' = (sink_failed \/ (text # <<>> /\ ~ok))
    /\ Go(w, "r_reset")
    /\ UNCHANGED <<last_typed, max_backspaces, dvars, variant, recording, lock, stream,
                   open_streams, audio_buffer, record_thread, tb, rl, joining, stack,
                   eaten, frames, skips, starts, setup>>

\* "audio_buffer = []; silence_chunks = 0; speech_detected = False"
RecordReset(w) ==
    /\ pc[w] = "r_reset"
    /\ rl' = [rl EXCEPT ![w] = RlIdle]
    /\ Go(w, "r_loop")
    /\ UNCHANGED <<last_typed, max_backspaces, dvars, variant, recording, lock, stream,
                   open_streams, audio_buffer, record_thread, tb, joining, stack,
                   screen, eaten, sink_failed, frames, hyps, skips, starts, setup>>

Next ==
    \/ \E c \in Callers :
        \/ Toggle(c)
        \/ StartCheckChunked(c)
        \/ StartCheckApp(c)
        \/ StartCheckDaemon(c)
        \/ StartSet(c)
        \/ StartBuf(c)
        \/ StartReset(c)
        \/ StartOpen(c)
        \/ StartOpenFails(c)
        \/ StartRevert(c)
        \/ StartSpawn(c)
        \/ StopCheckLocked(c)
        \/ StopCheckDaemon(c)
        \/ StopSleep(c)
        \/ StopClose(c)
        \/ StopNone(c)
        \/ StopFinal(c)
        \/ StopJoin(c)
        \/ StopJoined(c)
        \/ StopJoinTimeout(c)
    \/ \E s \in Callers, is_loud \in BOOLEAN : AudioCallback(s, is_loud)
    \/ \E w \in Workers :
        \/ WorkerLoop(w)
        \/ WorkerWake(w)
        \/ RecordLoop(w)
        \/ \E is_speech \in BOOLEAN : RecordRead(w, is_speech)
        \/ RecordReadFails(w)
        \/ ShutdownAudio(w)
    \/ \E t \in Threads :
        \/ \E text \in SessionTexts \cup {<<>>} : TbEngine(t, text)
        \/ TbBackspaces(t, tb[t].diff.backspaces)
        \/ TbType(t, TRUE)
        \/ TbUpdate(t)

Spec == Init /\ [][Next]_vars

(* -------------- specification of the reconciliation step --------------- *)

\* The state of ChunkedDictation or DictationDaemon after one toggle has
\* started a session: the capture stream is open and the worker is in its
\* loop.  No other toggle follows, so the worker is the only thread that
\* calls transcribe_buffer, and it meets every hypothesis and every outcome
\* of the sink.
InitReconcile ==
    /\ last_typed = <<>>
    /\ max_backspaces = DifferCap
    /\ variant \in {"chunked", "daemon"}
    /\ recording = TRUE
    /\ lock = 0
    /\ stream = 1
    /\ open_streams = {1}
    /\ audio_buffer = <<>>
    /\ record_thread = 0
    /\ pc = [t \in Threads |-> IF t = 1 THEN "done"
                               ELSE IF t = Worker(1) THEN "w_loop"
                               ELSE IF IsCaller(t) THEN "idle" ELSE "unborn"]
    /\ tb = [t \in Threads |-> TbIdle]
    /\ rl = [t \in Workers |-> RlIdle]
    /\ joining = [c \in Callers |-> 0]
    /\ stack = <<>>
    /\ screen = <<>>
    /\ eaten = 0
    /\ sink_failed = FALSE
    /\ frames = 0
    /\ hyps = 0
    /\ skips = 0
    /\ starts = 1
    /\ setup = [NoSetup EXCEPT !.resets = 1, !.opens = 1, !.spawns = 1]
    /\ NoCall

NextReconcile ==
    \/ \E is_loud \in BOOLEAN : AudioCallback(1, is_loud)
    \/ WorkerLoop(Worker(1))
    \/ WorkerWake(Worker(1))
    \/ \E text \in Hypotheses \cup {<<>>} : TbEngine(Worker(1), text)
    \/ TbEngineRaises(Worker(1))
    \/ \E done \in 0..DifferCap : TbBackspaces(Worker(1), done)
    \/ \E ok \in BOOLEAN : TbType(Worker(1), ok)
    \/ TbUpdate(Worker(1))

SpecReconcile == InitReconcile /\ [][NextReconcile]_vars

\* the start of the reconciliation specification is a state of a session
ReconcileStartReached ==
    /\ recording /\ lock = 0 /\ stream = 1 /\ open_streams = {1} /\ audio_buffer = <<>>
    /\ pc = [t \in Threads |-> IF t = 1 THEN "done"
                               ELSE IF t = Worker(1) THEN "w_loop"
                               ELSE IF IsCaller(t) THEN "idle" ELSE "unborn"]
    /\ starts = 1 /\ setup = [NoSetup EXCEPT !.resets = 1, !.opens = 1, !.spawns = 1]
    /\ last_typed = <<>> /\ screen = <<>> /\ eaten = 0 /\ hyps = 0 /\ frames = 0


(* ------------- specification of a stop during transcription ------------- *)

\* The state of ChunkedDictation or DictationDaemon in a session that has
\* typed and committed its first hypothesis "a": the frame is still in the
\* buffer, the worker is back in its loop, and the second toggle has not been
\* made.  That toggle stops the session while the worker goes on, and both
\* meet every hypothesis.
InitOverlap ==
    /\ last_typed = <<"a">>
    /\ max_backspaces = DifferCap
    /\ variant \in {"chunked", "daemon"}
    /\ recording = TRUE
    /\ lock = 0
    /\ stream = 1
    /\ open_streams = {1}
    /\ audio_buffer = <<Frame(1, TRUE)>>
    /\ record_thread = 0
    /\ pc = [t \in Threads |-> IF t = 1 THEN "done"
                               ELSE IF t = Worker(1) THEN "w_loop"
                               ELSE IF IsCaller(t) THEN "idle" ELSE "unborn"]
    /\ tb = [t \in Threads |-> TbIdle]
    /\ rl = [t \in Workers |-> RlIdle]
    /\ joining = [c \in Callers |-> 0]
    /\ stack = <<>>
    /\ screen = <<"a">>
    /\ eaten = 0
    /\ sink_failed = FALSE
    /\ frames = 1
    /\ hyps = 1
    /\ skips = 0
    /\ starts = 1
    /\ setup = [NoSetup EXCEPT !.resets = 1, !.opens = 1, !.spawns = 1]
    /\ NoCall

NextOverlap ==
    \/ Toggle(2)
    \/ StopCheckLocked(2)
    \/ StopCheckDaemon(2)
    \/ StopSleep(2)
    \/ StopClose(2)
    \/ StopNone(2)
    \/ StopFinal(2)
    \/ WorkerLoop(Worker(1))
    \/ WorkerWake(Worker(1))
    \/ \E t \in {2, Worker(1)} :
        \/ \E text \in Hypotheses \cup {<<>>} : TbEngine(t, text)
        \/ TbBackspaces(t, tb[t].diff.backspaces)
        \/ TbType(t, TRUE)
        \/ TbUpdate(t)

SpecOverlap == InitOverlap /\ [][NextOverlap]_vars

\* the start of that specification is a state of a session
OverlapStartReached ==
    /\ recording /\ lock = 0 /\ stream = 1 /\ open_streams = {1}
    /\ audio_buffer = <<Frame(1, TRUE)>>
    /\ pc = [t \in Threads |-> IF t = 1 THEN "done"
                               ELSE IF t = Worker(1) THEN "w_loop"
                               ELSE IF IsCaller(t) THEN "idle" ELSE "unborn"]
    /\ tb = [t \in Threads |-> TbIdle]
    /\ starts = 1 /\ setup = [NoSetup EXCEPT !.resets = 1, !.opens = 1, !.spawns = 1]
    /\ last_typed = <<"a">> /\ screen = <<"a">> /\ eaten = 0
    /\ hyps = 1 /\ frames = 1 /\ skips = 0 /\ stack = <<>>

(* ------------- specification of the silence-triggered loop -------------- *)

\* the locals _record_loop can hold at the top of its loop: nothing before
\* the first speech chunk, else the chunks buffered since then, of which the
\* last silence_chunks were silence, fewer than the threshold
SegmentLocals ==
    {RlIdle} \cup
    {[buffered |-> s + k, silence_chunks |-> s, speech_detected |-> TRUE] :
        s \in 0..(SilenceChunksThreshold - 1), k \in 1..2}

\* A DictationApp session that one toggle has started, with its worker at
\* the top of the loop somewhere in an utterance; frames and hyps count from
\* here on.  The worker reads on, and a second toggle may stop the session.
InitSegment ==
    /\ last_typed = <<>>
    /\ max_backspaces = DifferCap
    /\ variant = "app"
    /\ recording = TRUE
    /\ lock = 0
    /\ stream = 1
    /\ open_streams = {1}
    /\ audio_buffer = <<>>
    /\ record_thread = Worker(1)
    /\ pc = [t \in Threads |-> IF t = 1 THEN "done"
                               ELSE IF t = Worker(1) THEN "r_loop"
                               ELSE IF IsCaller(t) THEN "idle" ELSE "unborn"]
    /\ tb = [t \in Threads |-> TbIdle]
    /\ \E l \in SegmentLocals : rl = [t \in Workers |-> IF t = Worker(1) THEN l ELSE RlIdle]
    /\ joining = [c \in Callers |-> 0]
    /\ stack = <<>>
    /\ screen = <<>>
    /\ eaten = 0
    /\ sink_failed = FALSE
    /\ frames = 0
    /\ hyps = 0
    /\ skips = 0
    /\ starts = 1
    /\ setup = [NoSetup EXCEPT !.opens = 1, !.spawns = 1]
    /\ NoCall

NextSegment ==
    \/ RecordLoop(Worker(1))
    \/ \E is_speech \in BOOLEAN : RecordRead(Worker(1), is_speech)
    \/ RecordReadFails(Worker(1))
    \/ RecordEmit(Worker(1))
    \/ \E text \in SessionTexts \cup {<<>>}, ok \in BOOLEAN : RecordEngine(Worker(1), text, ok)
    \/ RecordReset(Worker(1))
    \/ ShutdownAudio(Worker(1))
    \/ Toggle(2)
    \/ StopCheckLocked(2)
    \/ StopJoin(2)
    \/ StopJoined(2)
    \/ StopJoinTimeout(2)

SpecSegment == InitSegment /\ [][NextSegment]_vars

(* ----------------- specification of a stop under fairness --------------- *)

\* ChunkedDictation after __init__
InitLive == Init /\ variant = "chunked"

\* the steps of transcribe_buffer on thread t; every engine and sink call returns
TranscribeSteps(t) ==
    \/ \E text \in SessionTexts \cup {<<>>} : TbEngine(t, text)
    \/ TbBackspaces(t, tb[t].diff.backspaces)
    \/ TbType(t, TRUE)
    \/ TbUpdate(t)

\* the steps of the thread that runs caller c's toggle, once it is called
CallerSteps(c) ==
    \/ StartCheckChunked(c)
    \/ StartBuf(c)
    \/ StartReset(c)
    \/ StartOpen(c)
    \/ StartSpawn(c)
    \/ StopCheckLocked(c)
    \/ StopClose(c)
    \/ StopNone(c)
    \/ StopFinal(c)
    \/ TranscribeSteps(c)

\* the steps of a transcription_loop worker
WorkerSteps(w) ==
    \/ WorkerLoop(w)
    \/ WorkerWake(w)
    \/ TranscribeSteps(w)

\* two toggles are made, so that a stop is followed by no new start; the
\* capture thread delivers frames when it likes
NextLive ==
    \/ \E c \in {1, 2} : Toggle(c) \/ CallerSteps(c)
    \/ \E w \in {Worker(1), Worker(2)} : WorkerSteps(w)
    \/ \E s \in {1, 2}, is_loud \in BOOLEAN : AudioCallback(s, is_loud)

\* every thread that can take a step is scheduled again
SpecLive ==
    /\ InitLive
    /\ [][NextLive]_vars
    /\ \A c \in {1, 2} : WF_vars(CallerSteps(c))
    /\ \A w \in {Worker(1), Worker(2)} : WF_vars(WorkerSteps(w))
(* ------------------------ claims on TextDiffer ------------------------- *)

\* the longest common prefix of A and B, stated without a scan: p characters
\* agree and either one string ends there or the next characters differ
IsCommonPrefixLen(A, B, p) ==
    /\ p <= Min(Len(A), Len(B))
    /\ \A i \in 1..p : A[i] = B[i]
    /\ \/ p = Min(Len(A), Len(B))
       \/ A[p + 1] # B[p + 1]

commonPrefixLen(A, B) == CHOOSE p \in 0..Min(Len(A), Len(B)) : IsCommonPrefixLen(A, B, p)

\* the text left after removing n trailing characters of A and appending s
ApplyEdit(A, n, s) == SubSeq(A, 1, Len(A) - n) \o s

\* C4: when max_backspaces >= len(A) - p, calculate_diff(B) on last_typed = A
\* returns (len(A) - p, B[p:]), and removing that many trailing characters of A
\* and appending the returned text gives exactly B
C4_DiffRebuildsNewText ==
    op = "calculate_diff" =>
        LET p == commonPrefixLen(before, arg)
        IN  max_backspaces >= Len(before) - p =>
                /\ result = EditDiff(Len(before) - p, Slice(arg, p))
                /\ ApplyEdit(before, result.backspaces, result.new_chars) = arg

\* a correction that keeps a common prefix, deletes a suffix and types a new one
C4_Witness ==
    /\ op = "calculate_diff"
    /\ ~result.none
    /\ commonPrefixLen(before, arg) > 0
    /\ result.backspaces > 0
    /\ result.new_chars # <<>>

\* C5: calculate_diff returns the skip value exactly when
\* len(A) - commonPrefixLen(A, B) > max_backspaces (so exactly max_backspaces
\* backspaces are not skipped), and a skipped call leaves last_typed unchanged
C5_SkipExactlyAboveCap ==
    op = "calculate_diff" =>
        /\ result.none <=> (Len(before) - commonPrefixLen(before, arg) > max_backspaces)
        /\ result.none => (result = SkipDiff /\ last_typed = before)

\* a skipped correction that needed just one backspace more than allowed
C5_Witness ==
    /\ op = "calculate_diff"
    /\ result.none
    /\ Len(before) - commonPrefixLen(before, arg) = max_backspaces + 1
    /\ last_typed = before

\* a correction of exactly max_backspaces > 0 backspaces, which is carried out
C5_WitnessAtCap ==
    /\ op = "calculate_diff"
    /\ ~result.none
    /\ max_backspaces > 0
    /\ result.backspaces = max_backspaces

\* C6: calculate_diff(B) right after update(B) returns (0, ""), never the skip
\* value, for every B and every max_backspaces >= 0
C6_DiffAfterUpdateIsNoOp ==
    (op = "calculate_diff" /\ updated = <<arg>>) => result = EditDiff(0, <<>>)

\* update(B) then calculate_diff(B) with B longer than max_backspaces
C6_Witness ==
    /\ op = "calculate_diff"
    /\ updated = <<arg>>
    /\ Len(arg) > max_backspaces
    /\ result = EditDiff(0, <<>>)

\* C22: last_typed is changed only by update(text), which sets it to text,
\* and by reset(), which empties it; calculate_diff leaves last_typed as it
\* was, also when it returns the skip value, and no method changes
\* max_backspaces.
C22_OnlyUpdateAndResetWrite ==
    [][/\ max_backspaces' = max_backspaces
       /\ op' = "calculate_diff" => last_typed' = last_typed
       /\ op' = "update" => last_typed' = arg'
       /\ op' = "reset" => last_typed' = <<>>
       /\ last_typed' # last_typed => op' \in {"update", "reset"}]_vars

\* update(A) with A not empty, then a calculate_diff that does not skip and
\* would replace A: last_typed is still A
C22_Witness ==
    /\ op = "calculate_diff"
    /\ updated = <<before>>
    /\ before # <<>>
    /\ ~result.none
    /\ result.backspaces > 0
    /\ arg # before
    /\ last_typed = before

(* ------------------- claims on the reconciliation step ----------------- *)

\* a thread is between the calculation of an edit and the end of its step
Reconciling(t) == pc[t] \in {"tb_backspaces", "tb_type", "tb_update"}

\* C1: with a sink that always succeeds, outside an in-progress
\* reconciliation step last_typed is exactly the text on screen for the
\* session, the net result of all backspaces and inserts issued so far
C1_LastTypedIsOnScreen ==
    (~sink_failed /\ \A t \in Threads : ~Reconciling(t)) =>
        (last_typed = screen /\ eaten = 0)

\* C7: when the delete of a step fails, the step is aborted: it issues no
\* insert and does not go on to differ.update
C7_FailedDeleteAbortsStep ==
    \A t \in Threads :
        tb[t].bs = "failed" => (tb[t].ty = "none" /\ pc[t] # "tb_update")

\* C8: when the insert of a step fails, differ.update is not called:
\* last_typed keeps the value it had before the step
C8_FailedInsertKeepsLastTyped ==
    [][\A t \in Threads :
          (pc[t] = "tb_update" /\ tb[t].ty = "failed") => last_typed' = last_typed]_vars

\* C9: a hypothesis for which calculate_diff returns the skip value ends its
\* step at once: no backspace and no insert is issued, last_typed is
\* unchanged (so the next hypothesis is diffed against the same text), and
\* only an edit within max_backspaces ever goes on to the sink
C9_SkipTouchesNothing ==
    [][\A t \in Threads :
          (pc[t] = "tb_engine" /\ pc'[t] # "tb_engine") =>
              /\ skips' # skips =>
                    /\ pc'[t] = AfterTranscribe(t)
                    /\ tb'[t] = TbIdle
                    /\ last_typed' = last_typed
                    /\ screen' = screen
                    /\ eaten' = eaten
              /\ pc'[t] \in {"tb_backspaces", "tb_type"} =>
                    Len(last_typed) - commonPrefixLen(last_typed, tb'[t].text)
                        <= max_backspaces]_vars

\* a long text is on screen, a second hypothesis that shares no prefix with
\* it was skipped, and the worker is back in its loop with nothing changed
C9_Witness ==
    /\ skips = 1
    /\ hyps = 2
    /\ pc[Worker(1)] = "w_loop"
    /\ tb[Worker(1)] = TbIdle
    /\ last_typed = LongHyp
    /\ screen = LongHyp
    /\ eaten = 0

(* ------------------------ claims on the session ------------------------ *)

Finished(c) == pc[c] \in {"done", "crashed"}

InsideTranscribe == {t \in Threads : pc[t] \in InTranscribe}

\* C2: N concurrent toggle calls against an Idle session of ChunkedDictation
\* or DictationApp produce exactly one transition to Recording (stated here
\* for the runs in which every capture open succeeds)
C2_ExactlyOneStart ==
    (/\ variant \in {"chunked", "app"}
     /\ \A c \in Callers : pc[c] = "done"
     /\ setup.reverts = 0) => starts = 1

\* C2, amended: N concurrent toggle calls against an Idle session produce at
\* least one transition to Recording, and the transitions that are not taken
\* back by a failed capture open number at most ceil(N / 2)
C2_StartsBetweenOneAndHalf ==
    variant \in {"chunked", "app"} =>
        /\ 2 * (starts - setup.reverts) <= NCallers + 1
        /\ (\A c \in Callers : Finished(c)) => starts >= 1

\* all toggles have ended, a session was started, stopped and started again
C2_Witness ==
    /\ variant \in {"chunked", "app"}
    /\ \A c \in Callers : Finished(c)
    /\ starts = 2
    /\ setup.reverts = 0
    /\ recording

\* C3: in ChunkedDictation and DictationDaemon no two threads are inside the
\* reconciliation step (transcribe_buffer) at the same time
C3_OneThreadTranscribes ==
    variant \in {"chunked", "daemon"} => Cardinality(InsideTranscribe) <= 1

\* C10: a start_recording that runs while the session is already Recording
\* is a no-op: every reset of the buffer and of last_typed, every opened
\* stream and every spawned worker belongs to its own transition from Idle
\* to Recording
C10_StartWhileRecordingIsNoOp ==
    /\ setup.resets <= starts
    /\ setup.opens <= starts
    /\ setup.spawns <= starts


(* -------------------- failures, stopping and workers -------------------- *)

\* C11: when opening the capture stream fails inside start_recording, the
\* session is Idle once that start_recording has ended: with one caller whose
\* start ended in the failed open and no other call made, recording is False.
C11_FailedOpenLeavesIdle ==
    \A c \in Callers :
        (pc[c] = "crashed" /\ \A d \in Callers \ {c} : pc[d] = "idle") => ~recording

\* C12: when recording stops with frames accumulated after speech and not yet
\* emitted, they are transcribed: the loop of DictationApp._record_loop is
\* never left through "while self.recording" with frames still buffered.
C12_StopFlushesBuffer ==
    [][\A w \in Workers :
          (pc[w] = "r_loop" /\ pc'[w] = "r_finally") => rl[w].buffered = 0]_vars

\* the step in which caller c's stop_recording returns after it has set
\* recording to False
StopReturns(c) ==
    /\ pc[c] \in {"stop_final", "stop_join", "stop_joining"} \cup InTranscribe
    /\ pc'[c] = "done"

\* C13: when a stop_recording that took effect returns, every background
\* worker has left its loop and ended, or the join has timed out.
C13_StopWaitsForWorker ==
    [][\A c \in Callers :
          StopReturns(c) =>
              \/ \A w \in Workers : pc[w] \in {"unborn", "done"}
              \/ pc[c] = "stop_joining" /\ pc[joining[c]] # "done"]_vars

\* C14: in DictationApp, once the worker has ended and no toggle is in
\* progress the session is Idle; in particular after a failed capture read,
\* which ends the worker, recording is False.
C14_ReadFailureLeavesIdle ==
    (/\ variant = "app"
     /\ record_thread # 0
     /\ pc[record_thread] = "done"
     /\ \A c \in Callers : pc[c] \in {"idle", "done"}) => ~recording

\* the background workers that have been started and have not ended
LiveWorkers == {w \in Workers : pc[w] \notin {"unborn", "done", "crashed"}}

\* C15: in ChunkedDictation and DictationApp at most one background worker
\* loop is executing at any time.
C15_AtMostOneWorker ==
    variant \in {"chunked", "app"} => Cardinality(LiveWorkers) <= 1

\* C16 as stated: no audio frame is part of more than one transcription
\* request.  Each request holds at least one frame ("if not
\* self.audio_buffer: return") and each hypothesis is the answer to one
\* request, so the hypotheses returned would never outnumber the frames
\* delivered.
C16_NoFrameTranscribedTwice ==
    variant \in {"chunked", "daemon"} => hyps <= frames

\* buffer a is buffer b with frames appended
Extends(a, b) == Len(a) >= Len(b) /\ SubSeq(a, 1, Len(b)) = b

\* C16: the whole of audio_buffer is handed to the speech engine and stays in
\* audio_buffer: a call of transcribe_buffer that reaches the engine leaves
\* the buffer as it is, and the buffer loses frames only in start_recording
\* ("self.audio_buffer = []").
C16_BufferKeptAcrossRequests ==
    [][/\ \A t \in Threads :
             (pc[t] \in {"w_wake", "stop_final"} /\ pc'[t] = "tb_engine") =>
                 (audio_buffer # <<>> /\ audio_buffer' = audio_buffer)
       /\ \/ Extends(audio_buffer', audio_buffer)
          \/ \E c \in Callers : pc[c] = "start_buf" /\ pc'[c] # "start_buf"]_vars

\* one frame was delivered, two requests that held it were answered with a
\* hypothesis, and it is still in the buffer
C16_Witness ==
    /\ frames = 1
    /\ hyps = 2
    /\ Len(audio_buffer) = 1
    /\ pc[Worker(1)] = "w_loop"

\* thread u makes a call of the sink: type_backspaces or type_text
SinkCall(u) == pc[u] \in {"tb_backspaces", "tb_type"} /\ pc'[u] # pc[u]

\* thread t has issued the backspaces of its hypothesis and not yet its insert
MidEdit(t) == pc[t] = "tb_type" /\ tb[t].bs # "none"

\* C17: between the backspaces of a hypothesis and the end of its insert no
\* sink call of another hypothesis is issued.
C17_EditNotInterleaved ==
    [][\A t, u \in Threads : (t # u /\ MidEdit(t)) => ~SinkCall(u)]_vars

(* --------------------- the silence-triggered loop ----------------------- *)

\* what one chunk does to the accumulator l of an utterance: a chunk before
\* the first speech is dropped, a speech chunk is kept and ends the run of
\* silence, a silence chunk after speech is kept and counted
Accumulated(l, is_speech) ==
    IF is_speech
    THEN [buffered |-> l.buffered + 1, silence_chunks |-> 0, speech_detected |-> TRUE]
    ELSE IF ~l.speech_detected
    THEN l
    ELSE [buffered |-> l.buffered + 1, silence_chunks |-> l.silence_chunks + 1,
          speech_detected |-> TRUE]

\* C18: in _record_loop nothing is buffered before the first speech chunk;
\* every chunk read changes the accumulator as Accumulated says (speech sets
\* the silence counter to zero); the loop goes to the emit exactly when the
\* run of silence after speech reaches the threshold; while recording the
\* emit hands the whole buffer to the engine once, and afterwards buffer,
\* counter and flag are reset together.
C18_SilenceTriggeredSegments ==
    [][\A w \in Workers :
          /\ ~rl[w].speech_detected => (rl[w].buffered = 0 /\ rl[w].silence_chunks = 0)
          /\ (pc[w] = "r_read" /\ pc'[w] \in {"r_loop", "r_emit"}) =>
                /\ \E is_speech \in BOOLEAN : rl'[w] = Accumulated(rl[w], is_speech)
                /\ pc'[w] = "r_emit" <=>
                      (rl'[w].speech_detected
                       /\ rl'[w].silence_chunks = SilenceChunksThreshold)
          /\ (pc[w] = "r_emit" /\ pc'[w] # "r_emit" /\ recording) =>
                (pc'[w] = "r_engine" /\ rl'[w] = rl[w] /\ rl[w].buffered > 0)
          /\ (pc[w] = "r_engine" /\ pc'[w] # "r_engine") =>
                (pc'[w] = "r_reset" /\ rl'[w] = rl[w])
          /\ (pc[w] = "r_reset" /\ pc'[w] # "r_reset") =>
                (pc'[w] = "r_loop" /\ rl'[w] = RlIdle)]_vars

\* a segment of 50 chunks, a speech chunk and 49 of silence, was emitted and
\* typed, and the accumulator is empty again
C18_Witness ==
    /\ pc[Worker(1)] = "r_loop"
    /\ rl[Worker(1)] = RlIdle
    /\ frames = 1
    /\ hyps = 1
    /\ screen = <<"a", " ">>

\* C19: an exception raised inside the background worker is caught at the
\* loop boundary: no worker ends with an uncaught exception, and the session
\* is not Recording without a worker that runs.
C19_WorkerCatchesExceptions ==
    /\ \A w \in Workers : pc[w] # "crashed"
    /\ (recording /\ \A c \in Callers : pc[c] \in {"idle", "done"}) => LiveWorkers # {}

\* the peak of the buffered audio is below the near-silence threshold
NearSilent == audio_buffer # <<>> /\ \A i \in DOMAIN audio_buffer : ~audio_buffer[i].loud

\* C20: transcribe_buffer on a segment whose peak is below the near-silence
\* threshold returns without calling the speech engine or the sink and
\* without changing last_typed.
C20_QuietSegmentDiscarded ==
    [][\A t \in Threads :
          (pc[t] \in {"w_wake", "stop_final"} /\ pc'[t] # pc[t] /\ NearSilent) =>
              /\ pc'[t] \notin InTranscribe
              /\ hyps' = hyps
              /\ screen' = screen /\ eaten' = eaten
              /\ last_typed' = last_typed]_vars

\* a ChunkedDictation session was stopped with one quiet frame buffered: the
\* final transcribe_buffer of stop_recording has returned and nothing was
\* transcribed or typed
C20_Witness ==
    /\ variant = "chunked"
    /\ pc[1] = "done" /\ pc[2] = "done" /\ pc[3] = "idle"
    /\ ~recording /\ stream = 0 /\ setup.opens = 1
    /\ NearSilent
    /\ hyps = 0 /\ screen = <<>> /\ last_typed = <<>>

(* ------------------- ownership, sessions and liveness ------------------- *)

\* C21: in ChunkedDictation and DictationDaemon the speech engine and the
\* sink are called only by the background worker: no thread that runs toggle
\* or stop_recording is ever inside transcribe_buffer.
C21_OnlyWorkerCallsSink ==
    variant \in {"chunked", "daemon"} => \A c \in Callers : pc[c] \notin InTranscribe

\* C23: a start_recording that took effect begins the session with
\* last_typed empty and no update of an earlier session's worker gets in after
\* the reset.  In ChunkedDictation, between the reset and the opening of the
\* new session's stream the session has no audio and no worker of its own,
\* so last_typed is still empty.
C23_NewSessionStartsClean ==
    variant = "chunked" =>
        \A d \in Callers : pc[d] = "start_open" => last_typed = <<>>

\* C24: in DictationDaemon a toggle request that arrives while a toggle is in
\* progress does not run nested inside it: the main thread never holds more
\* than one activation of toggle.
C24_ToggleNotNested ==
    variant = "daemon" => Len(stack) <= 1

\* C25: once a stop_recording that took effect has returned, and as long as
\* no start follows, nothing more is sent to the sink and last_typed stays as
\* it is.  Caller 2 is the caller that stops the session.
C25_QuietAfterStop ==
    [][(pc[2] = "done" /\ ~recording) =>
          (screen' = screen /\ eaten' = eaten /\ last_typed' = last_typed)]_vars

\* C26: a stop_recording that took effect is eventually followed by the
\* session being Idle with every worker loop exited and the capture stream
\* closed, and by the return of that stop_recording.
C26_StopEndsSession ==
    \A c \in {1, 2} :
        (pc[c] = "stop_close") ~>
            (/\ pc[c] = "done"
             /\ ~recording
             /\ open_streams = {}
             /\ \A w \in Workers : pc[w] \in {"unborn", "done"})

\* C27: in DictationApp at most one capture stream is open at a time, and
\* the _shutdown_audio of a worker closes no stream but the one opened by the
\* start_recording that spawned it.
C27_OneStreamClosedByOwner ==
    [][variant = "app" =>
          /\ Cardinality(open_streams') <= 1
          /\ \A c \in Callers :
                (pc[Worker(c)] = "r_finally" /\ pc'[Worker(c)] = "done") =>
                    (open_streams \ open_streams') \subseteq {c}]_vars

====
